---------------------------- MODULE Spec2Model ----------------------------
(***************************************************************************)
(* Reed-Kellogg sentence diagrammer: the layout handlers of                *)
(* src/diagrammer.py (process_s, process_np, process_vp, process_adjp,     *)
(* process_sbar, process_modifier, process_indirect_object, draw_text,     *)
(* draw_line), generate_diagram, and the request loop of src/app.py.       *)
(*                                                                         *)
(* Coordinates.  The source computes with Python floats and halves some    *)
(* lengths (width / 2, len(label) * 1.5).  Every coordinate and every      *)
(* width of the model is held in HALF canvas units, so all of them stay    *)
(* integers: a source literal c is written u(c), and a source "v / 2" is   *)
(* Half(v).  y grows downwards on the canvas (generate_diagram inverts the *)
(* y axis), so "above the baseline" is a smaller y.                        *)
(*                                                                         *)
(* Exceptions.  A handler returns [ax, w, h, err]: the primitives on the   *)
(* axes after it ran, the (width, height) pair it returns, and whether it  *)
(* raised.  A raised exception is never caught inside diagrammer.py, so    *)
(* every caller passes it on at once, keeping the primitives drawn so far. *)
(***************************************************************************)
EXTENDS Integers, Sequences, FiniteSets, TLC

VARIABLES
  pc,          \* SpecLayout: "ready" | "laid";  Spec: "idle" | "loop" | "done"
  call,        \* SpecLayout: the function applied to `tree` ("" before the call)
  tree,        \* SpecLayout: the parse (sub)tree handed to the function
  ax0,         \* SpecLayout: primitives already on the axes before the call
  out,         \* SpecLayout: what the call returned: [ax, w, h, err]
  sentences,   \* Spec: the request's sentences (each one is its parse tree)
  style,       \* Spec: the request's style
  idx,         \* Spec: number of sentences the loop of index() has handled
  results,     \* Spec: the results list of index()
  figs,        \* Spec: one entry per matplotlib figure created: [ax, open]
  graphs       \* Spec: number of graphviz Digraph objects created

vars == <<pc, call, tree, ax0, out, sentences, style, idx, results, figs, graphs>>

-----------------------------------------------------------------------------
(* Bounds of the model *)

\* longest run of DT/JJ modifiers in front of a noun phrase's head
MaxMods == 2
\* largest number of conjuncts of a coordinated NP or S
MaxConj == 2
\* largest number of sentences in one request
MaxSentences == 3

-----------------------------------------------------------------------------
(* Units *)

u(c) == c + c
Half(v) == v \div 2
Max(a, b) == IF a >= b THEN a ELSE b

-----------------------------------------------------------------------------
(* nltk.Tree: a label and an ordered list of children.  A preterminal      *)
(* (POS tag over one word) has no tree children and carries its word.      *)

T(tag, w) == [label |-> tag, word |-> w, kids |-> <<>>]
N(lab, ks) == [label |-> lab, word |-> "", kids |-> ks]

RECURSIVE leaves(_), kids_leaves(_, _)
leaves(t) == IF t.kids = <<>> THEN <<t.word>> ELSE kids_leaves(t.kids, 1)
kids_leaves(ks, i) ==
  IF i > Len(ks) THEN <<>> ELSE leaves(ks[i]) \o kids_leaves(ks, i + 1)

\* ' '.join(words)
RECURSIVE join(_)
join(ws) ==
  IF ws = <<>> THEN ""
  ELSE IF Len(ws) = 1 THEN ws[1]
  ELSE ws[1] \o " " \o join(Tail(ws))

\* [child for child in tree if child.label() in labs]
Children(t, labs) == SelectSeq(t.kids, LAMBDA c : c.label \in labs)

\* any(child.label() == 'CC' for child in tree)
HasCC(t) == \E i \in 1..Len(t.kids) : t.kids[i].label = "CC"

\* seq[::-1]
Reverse(s) == [i \in 1..Len(s) |-> s[Len(s) + 1 - i]]

\* child.label().startswith('NN'): the Penn tags NN, NNS, NNP, NNPS
NounTags == {"NN", "NNS", "NNP", "NNPS"}
\* child.label().startswith('VB'): the Penn tags VB, VBD, VBG, VBN, VBP, VBZ
VerbTags == {"VB", "VBD", "VBG", "VBN", "VBP", "VBZ"}
SimpleModTags ==
  {"DT", "PDT", "WDT", "CD", "PRP$", "JJ", "JJR", "JJS", "RB", "RBR", "RBS"}
NPModTags == {"DT", "PDT", "WDT", "CD", "PRP$", "JJ", "JJR", "JJS", "PP", "ADJP"}
VPModTags == {"RB", "RBR", "RBS", "ADVP", "PP"}

-----------------------------------------------------------------------------
(* Primitives on the axes.  site is the source line of the ax.plot/ax.text *)
(* call path that emitted the primitive (the line of the draw_line or      *)
(* ax.text call); tag is the label of the complement a verb-phrase         *)
(* separator is drawn for, "" elsewhere.  Neither is read by the layout.   *)

Ret(ax, w, h) == [ax |-> ax, w |-> w, h |-> h, err |-> FALSE]
Raise(ax) == [ax |-> ax, w |-> 0, h |-> 0, err |-> TRUE]

\* draw_line: every caller passes 'solid' or 'dashed', so the
\* "Unsupported line style" ValueError is never raised.
draw_line(ax, start_pos, end_pos, line_style, site, tag) ==
  Append(ax, [k |-> "line", site |-> site, tag |-> tag,
              x1 |-> start_pos[1], y1 |-> start_pos[2],
              x2 |-> end_pos[1], y2 |-> end_pos[2],
              style |-> line_style, text |-> ""])

ax_text(ax, x, y, text, rotation, site) ==
  Append(ax, [k |-> "text", site |-> site, tag |-> "",
              x1 |-> x, y1 |-> y, x2 |-> x, y2 |-> y,
              style |-> rotation, text |-> text])

\* draw_text: head_y is <<>> for None, <<v>> for a value.  Returns
\* [ax, width, height].
draw_text(ax, text, x, y, rotate, head_y) ==
  LET width0 == u(10)
      height0 == u(10)
      x1 == x - Half(width0)
      x2 == x + Half(width0)
  IN IF rotate /\ head_y # <<>>
     THEN LET hy == head_y[1]
              x1_rot == x
              y1_rot == hy
              x2_rot == x + width0
              y2_rot == hy + height0
              dx == x2_rot - x1_rot
              dy == y2_rot - y1_rot
          IN IF dx # 0 /\ dy # 0      \* m != inf and m != 0
             THEN LET intersect_x == x1_rot + ((hy - y1_rot) * dx) \div dy
                      a1 == draw_line(ax, <<intersect_x, hy>>, <<x2_rot, y2_rot>>,
                                      "solid", 89, "")
                      a2 == ax_text(a1, Half(intersect_x + x2_rot) + u(3),
                                    Half(hy + y2_rot) + u(3), text, "-45", 90)
                  IN [ax |-> a2, width |-> x2_rot - intersect_x,
                      height |-> y2_rot - hy]
             ELSE LET a1 == ax_text(ax, Half(x1_rot + x2_rot) + u(3),
                                    Half(hy + y2_rot) + u(3), text, "-45", 95)
                      a2 == draw_line(a1, <<x1_rot, hy>>, <<x1_rot, y1_rot>>,
                                      "solid", 98, "")
                      a3 == draw_line(a2, <<x1_rot, y1_rot>>, <<x2_rot, y2_rot>>,
                                      "solid", 99, "")
                  IN [ax |-> a3, width |-> x2_rot - x1_rot,
                      height |-> y2_rot - hy]
     ELSE LET a1 == ax_text(ax, x, y, text, "0", 103)
              a2 == draw_line(a1, <<x1, y>>, <<x2, y>>, "solid", 104, "")
          IN [ax |-> a2, width |-> width0, height |-> height0]


-----------------------------------------------------------------------------
(* The layout handlers.  They are mutually recursive; the loops of the     *)
(* source that call a handler are the *_loop operators.                    *)

\* "v = <value>; <rest>": the value is computed once and then used by rest.
Bind(v, rest(_)) == CHOOSE z \in {rest(r) : r \in {v}} : TRUE

RECURSIVE Invoke(_, _),
          adverb_loop(_, _, _, _, _), np_coord_loop(_, _, _, _, _, _, _),
          np_head_loop(_, _, _, _, _), mod_loop(_, _, _, _, _),
          vp_adjp_loop(_, _, _, _), vp_comp_loop(_, _, _, _),
          s_coord_loop(_, _, _, _, _, _), s_advp_loop(_, _, _, _, _),
          s_sbar_loop(_, _, _, _, _, _), concat_labels(_)

\* label += ' '.join(child.leaves()) over the children cs, in order
concat_labels(cs) ==
  IF cs = <<>> THEN "" ELSE join(leaves(cs[1])) \o concat_labels(Tail(cs))

\* process_modifier, lines 156-160: the adverbs of an ADJP/ADVP modifier
adverb_loop(ax, adverbs, i, adv_x, initial_offset) ==
  IF i > Len(adverbs) THEN ax
  ELSE LET adv_y == initial_offset + (i - 1) * u(10)
           d == draw_text(ax, join(leaves(adverbs[i])), adv_x, adv_y, TRUE, <<adv_y>>)
       IN Bind(draw_line(d.ax, <<adv_x, adv_y>>, <<adv_x + u(4), adv_y - u(4)>>,
                         "solid", 160, ""),
               LAMBDA a : adverb_loop(a, adverbs, i + 1, adv_x, initial_offset))

\* process_modifier returns one number, its width (w); h is unused.
process_modifier(ax, node, x, y, head_y) ==
  IF node.label \in SimpleModTags
  THEN Ret(draw_text(ax, join(leaves(node)), x, y + u(10), TRUE, <<head_y>>).ax,
           u(10), 0)
  ELSE IF node.label = "PP"
  THEN IF Children(node, {"IN"}) = <<>> THEN Raise(ax)           \* [...][0], line 131
       ELSE Bind(draw_text(ax, join(leaves(Children(node, {"IN"})[1])), x,
                           y + u(10), TRUE, <<head_y>>),
            LAMBDA d :
              IF Children(node, {"NP"}) = <<>> THEN Raise(d.ax)  \* [...][0], line 136
              ELSE Bind(Invoke("process_np", <<d.ax, Children(node, {"NP"})[1],
                                   x + u(10), y + u(10)>>),
                   LAMBDA r : IF r.err THEN Raise(r.ax)
                              ELSE Ret(r.ax, r.w + u(10), 0)))
  ELSE IF node.label \in {"ADJP", "ADVP"}
  THEN LET head_tag == IF node.label = "ADJP" THEN "JJ" ELSE "RB"
           cands == Children(node, {head_tag})
           rbs == Children(node, {"RB"})
       IN IF cands = <<>> THEN Raise(ax)                  \* [...][0] / [...][-1]
          ELSE LET main_word == IF node.label = "ADJP" THEN cands[1]
                                ELSE cands[Len(cands)]
                   adverbs == IF node.label = "ADJP" THEN Reverse(rbs)
                              ELSE Reverse(SubSeq(rbs, 1, Len(rbs) - 1))
               IN Bind(draw_text(ax, join(leaves(main_word)), x, y + u(10),
                                 TRUE, <<head_y>>),
                       LAMBDA d : Ret(adverb_loop(d.ax, adverbs, 1, x + u(2),
                                                  y + u(10)), u(10), 0))
  ELSE Ret(ax, 0, 0)

\* The modifier loops of process_np (259-264), process_vp (287-291) and
\* process_adjp (363-367): st = [ax, total, mod_x, err].
mod_loop(st, t, tags, i, y) ==
  IF i > Len(t.kids) THEN st
  ELSE IF t.kids[i].label \in tags
  THEN Bind(Invoke("process_modifier", <<st.ax, t.kids[i], st.mod_x, y, y>>),
       LAMBDA r :
         IF r.err THEN [st EXCEPT !.ax = r.ax, !.err = TRUE]
         ELSE Bind([ax |-> r.ax, total |-> st.total + r.w,
                    mod_x |-> st.mod_x + r.w, err |-> FALSE],
                   LAMBDA s : mod_loop(s, t, tags, i + 1, y)))
  ELSE mod_loop(st, t, tags, i + 1, y)

\* process_np, lines 235-237: the conjunction between two conjuncts
np_conjunction(ax, cc_label, x, yi) ==
  LET d == draw_text(ax, cc_label, x, yi, FALSE, <<>>)
      a1 == draw_line(d.ax, <<x - Half(d.width), yi>>,
                      <<x - Half(d.width), yi + u(4)>>, "dashed", 236, "")
  IN draw_line(a1, <<x + Half(d.width), yi + u(4)>>,
               <<x + Half(d.width), yi + u(8)>>, "dashed", 237, "")

\* process_np, lines 231-237: the conjuncts of a coordinated NP
np_coord_loop(st, np_nodes, cc_label, i, x, y, total_height) ==
  IF i > Len(np_nodes) THEN Ret(st.ax, st.w, total_height)
  ELSE LET yi == y + (i - 1) * u(8) - Half(total_height)
       IN Bind(Invoke("process_np", <<st.ax, np_nodes[i], x, yi>>),
          LAMBDA r :
            IF r.err THEN Raise(r.ax)
            ELSE Bind(Ret(IF i < Len(np_nodes)
                          THEN np_conjunction(r.ax, cc_label, x, yi) ELSE r.ax,
                          Max(st.w, r.w), 0),
                      LAMBDA s : np_coord_loop(s, np_nodes, cc_label, i + 1, x, y,
                                               total_height)))

\* process_np, lines 243-251: st = [ax, head_label, head_width, head_buffer, err]
np_head_loop(st, t, i, x, y) ==
  IF i > Len(t.kids) THEN st
  ELSE LET child == t.kids[i]
       IN IF child.label \in NounTags \/ child.label = "PRP"
          THEN Bind([st EXCEPT !.head_label = @ \o join(leaves(child)),
                               !.head_width = @ + u(5)],
                    LAMBDA s : np_head_loop(s, t, i + 1, x, y))
          ELSE IF child.label = "NP"
          THEN Bind(Invoke("process_np", <<st.ax, child, x, y>>),
               LAMBDA r :
                 IF r.err THEN [st EXCEPT !.ax = r.ax, !.err = TRUE]
                 ELSE Bind([st EXCEPT !.ax = r.ax, !.head_width = @ + r.w,
                                      !.head_buffer = r.w],
                           LAMBDA s : np_head_loop(s, t, i + 1, x, y)))
          ELSE np_head_loop(st, t, i + 1, x, y)

\* process_np, lines 266-271
np_finish(ax, head_label, head_width, total_mod_width, x, y) ==
  LET baseline_start == x
      baseline_end == baseline_start + Max(head_width, total_mod_width)
      head_x == Half(baseline_start + baseline_end)
      d == draw_text(ax, head_label, head_x, y, FALSE, <<>>)
  IN Ret(draw_line(d.ax, <<baseline_start, y>>, <<baseline_end, y>>,
                   "solid", 270, ""),
         total_mod_width, u(10))

process_np(ax, t, x, y) ==
  IF HasCC(t)
  THEN LET np_nodes == Children(t, {"NP"})
           cc == Children(t, {"CC"})[1]
           total_height == Len(np_nodes) * u(8)
       IN Bind(Ret(ax, 0, 0),
               LAMBDA s : np_coord_loop(s, np_nodes, join(leaves(cc)), 1, x, y,
                                        total_height))
  ELSE Bind([ax |-> ax, head_label |-> "", head_width |-> u(5),
             head_buffer |-> 0, err |-> FALSE],
       LAMBDA st0 :
         Bind(np_head_loop(st0, t, 1, x, y),
         LAMBDA hd :
           IF hd.err THEN Raise(hd.ax)
           ELSE Bind(mod_loop([ax |-> hd.ax, total |-> hd.head_buffer,
                               mod_x |-> x + u(2) + hd.head_buffer,
                               err |-> FALSE], t, NPModTags, 1, y),
                LAMBDA md :
                  IF md.err THEN Raise(md.ax)
                  ELSE np_finish(md.ax, hd.head_label, hd.head_width, md.total,
                                 x, y))))

process_indirect_object(ax, t, x, y, head_y) ==
  LET slant_length == u(10)
      io_x == x + slant_length
      io_y == y + slant_length
  IN Bind(draw_line(ax, <<x, head_y>>, <<io_x, io_y>>, "solid", 351, ""),
          LAMBDA a : Invoke("process_np", <<a, t, io_x, io_y>>))

\* process_adjp, lines 369-374
adjp_finish(ax, adj_label, head_width, total_mod_width, x, y) ==
  LET baseline_start == x
      baseline_end == baseline_start + Max(head_width, total_mod_width)
      head_x == Half(baseline_start + baseline_end)
      d == draw_text(ax, adj_label, head_x, y, FALSE, <<>>)
  IN Ret(draw_line(d.ax, <<baseline_start, y>>, <<baseline_end, y>>,
                   "solid", 373, ""),
         head_width, u(10))

process_adjp(ax, t, x, y) ==
  IF Children(t, {"JJ", "JJR", "JJS"}) = <<>> THEN Raise(ax)     \* [...][0], line 356
  ELSE LET adj == Children(t, {"JJ", "JJR", "JJS"})[1]
           head_width == u(10)
       IN Bind([ax |-> ax, total |-> 0, mod_x |-> x, err |-> FALSE],
          LAMBDA st0 :
            Bind(mod_loop(st0, t, {"RB"}, 1, y),
            LAMBDA md :
              IF md.err THEN Raise(md.ax)
              ELSE adjp_finish(md.ax, join(leaves(adj)), head_width, md.total,
                               x, y)))

\* The separator of line 317 as it would be if it were drawn like the
\* divider of line 200, through the baseline.
vp_separator_piercing(ax, separator_x, y, tag) ==
  draw_line(ax, <<separator_x - u(2), y - u(6)>>, <<separator_x + u(2), y + u(3)>>,
            "solid", 317, tag)

\* process_vp, line 317: the separator drawn in front of each complement
\* when the verb phrase does not have exactly two NP children.
vp_separator(ax, separator_x, y, tag) ==
  draw_line(ax, <<separator_x - u(2), y - u(6)>>, <<separator_x + u(2), y>>,
            "solid", 317, tag)

\* process_vp, lines 304-305: the mark in front of the direct object when
\* the verb phrase has exactly two NP children.
vp_object_tick(ax, comp_x, y) ==
  LET a == draw_line(ax, <<comp_x, y>>, <<comp_x + u(4), y>>, "solid", 304, "")
  IN draw_line(a, <<comp_x + u(2), y - u(6)>>, <<comp_x + u(2), y>>,
               "solid", 305, "NP")

\* process_vp, lines 309-312: st = [ax, comp_x, err]
vp_adjp_loop(st, rest, i, y) ==
  IF i > Len(rest) THEN st
  ELSE IF rest[i].label = "ADJP"
  THEN Bind(Invoke("process_adjp", <<st.ax, rest[i], st.comp_x, y>>),
       LAMBDA r :
         IF r.err THEN [st EXCEPT !.ax = r.ax, !.err = TRUE]
         ELSE Bind([ax |-> r.ax, comp_x |-> st.comp_x + r.w, err |-> FALSE],
                   LAMBDA s : vp_adjp_loop(s, rest, i + 1, y)))
  ELSE vp_adjp_loop(st, rest, i + 1, y)

\* process_vp, lines 314-323: st = [ax, comp_x, err]
vp_comp_loop(st, complements, i, y) ==
  IF i > Len(complements) THEN st
  ELSE LET comp == complements[i]
           separator_x == st.comp_x
           comp_x == st.comp_x + u(2)
       IN Bind(vp_separator(st.ax, separator_x, y, comp.label),
          LAMBDA a :
            Bind(IF comp.label = "NP" THEN Invoke("process_np", <<a, comp, comp_x, y>>)
                 ELSE IF comp.label = "ADJP" THEN Invoke("process_adjp", <<a, comp, comp_x, y>>)
                 ELSE Ret(a, 0, 0),
            LAMBDA r :
              IF r.err THEN [st EXCEPT !.ax = r.ax, !.err = TRUE]
              ELSE Bind([ax |-> r.ax, comp_x |-> comp_x + r.w + u(2),
                         err |-> FALSE],
                        LAMBDA s : vp_comp_loop(s, complements, i + 1, y))))

\* process_vp, lines 325-329
vp_finish(ax, verb_label, verb_width, x, comp_x, y) ==
  LET verb_baseline_start == x
      verb_baseline_end == comp_x
      d == draw_text(ax, verb_label, verb_baseline_start + Half(verb_width), y,
                     FALSE, <<>>)
  IN Ret(draw_line(d.ax, <<verb_baseline_start, y>>, <<verb_baseline_end, y>>,
                   "solid", 327, ""),
         comp_x - x, u(10))

\* process_vp, lines 300-312: exactly two NP children
vp_two_objects(ax, complements, objects, comp_x0, y) ==
  Bind(Invoke("process_indirect_object", <<ax, objects[1], comp_x0, y, y>>),
  LAMBDA io :
    IF io.err THEN [ax |-> io.ax, comp_x |-> comp_x0, err |-> TRUE]
    ELSE LET comp_x1 == comp_x0 + u(10)
             comp_x2 == comp_x1 + u(4)
         IN Bind(vp_object_tick(io.ax, comp_x1, y),
            LAMBDA a :
              Bind(Invoke("process_np", <<a, objects[2], comp_x2, y>>),
              LAMBDA do :
                IF do.err THEN [ax |-> do.ax, comp_x |-> comp_x2, err |-> TRUE]
                ELSE Bind([ax |-> do.ax, comp_x |-> comp_x2 + do.w, err |-> FALSE],
                     LAMBDA s :
                       vp_adjp_loop(s,
                         SelectSeq(complements,
                           LAMBDA c : \A j \in 1..Len(objects) : c # objects[j]),
                         1, y)))))

process_vp(ax, t, x, y) ==
  LET verbs == Children(t, VerbTags \cup {"MD"})
      verb_label == concat_labels(verbs)
      verb_width == u(5) + Len(verbs) * u(5)
  IN Bind([ax |-> ax, total |-> 0, mod_x |-> x + u(5), err |-> FALSE],
     LAMBDA st0 :
       Bind(mod_loop(st0, t, VPModTags, 1, y),
       LAMBDA md :
         IF md.err THEN Raise(md.ax)
         ELSE
         LET verb_baseline_start == x
             verb_baseline_end == verb_baseline_start + Max(verb_width, md.total)
             complements == Children(t, {"NP", "ADJP"})
             comp_x0 == verb_baseline_end + u(2)
             objects == SelectSeq(complements, LAMBDA c : c.label = "NP")
         IN Bind(IF Len(objects) = 2
                 THEN vp_two_objects(md.ax, complements, objects, comp_x0, y)
                 ELSE Bind([ax |-> md.ax, comp_x |-> comp_x0, err |-> FALSE],
                           LAMBDA s : vp_comp_loop(s, complements, 1, y)),
            LAMBDA lp :
              IF lp.err THEN Raise(lp.ax)
              ELSE vp_finish(lp.ax, verb_label, verb_width, x, lp.comp_x, y))))

\* process_sbar: len(conj_label) * 1.5 + 2 canvas units are
\* 3 * len(conj_label) + u(2) half-units.
process_sbar(ax, t, x, y) ==
  LET conj == Children(t, {"IN"})
      conj_label == IF conj # <<>> THEN join(leaves(conj[1])) ELSE ""
      offset == IF conj # <<>> THEN 3 * Len(conj_label) + u(2) ELSE 0
      s_x == x + offset
  IN IF Children(t, {"S"}) = <<>> THEN Raise(ax)                \* [...][0], line 381
     ELSE Bind(IF conj # <<>>
               THEN draw_text(ax, conj_label, x, y, FALSE, <<>>).ax ELSE ax,
          LAMBDA a :
            Bind(Invoke("process_s", <<a, Children(t, {"S"})[1], s_x, y>>),
            LAMBDA r :
              IF r.err THEN Raise(r.ax)
              ELSE Ret(IF conj # <<>>
                       THEN draw_line(r.ax, <<x, y>>, <<s_x, y>>, "dashed", 389, "")
                       ELSE r.ax,
                       r.w + offset, r.h)))

\* process_s, lines 191-193: the conjunction between two clauses
s_conjunction(ax, cc_label, x, yi) ==
  LET d == draw_text(ax, cc_label, x, yi + u(15), FALSE, <<>>)
      a1 == draw_line(d.ax, <<x - Half(d.width), yi>>,
                      <<x - Half(d.width), yi + u(15)>>, "dashed", 192, "")
  IN draw_line(a1, <<x + Half(d.width), yi + u(15)>>,
               <<x + Half(d.width), yi + u(30)>>, "dashed", 193, "")

\* process_s, lines 186-193: the conjuncts of a coordinated sentence
s_coord_loop(st, s_nodes, cc_label, i, x, y) ==
  IF i > Len(s_nodes) THEN st
  ELSE LET yi == y + (i - 1) * u(30)
       IN Bind(Invoke("process_s", <<st.ax, s_nodes[i], x, yi>>),
          LAMBDA r :
            IF r.err THEN Raise(r.ax)
            ELSE Bind(Ret(IF i < Len(s_nodes)
                          THEN s_conjunction(r.ax, cc_label, x, yi) ELSE r.ax,
                          Max(st.w, r.w), st.h + r.h),
                      LAMBDA s : s_coord_loop(s, s_nodes, cc_label, i + 1, x, y)))

\* process_s, lines 203-207: st = [ax, w, h, err], w is pred_mod_width
s_advp_loop(st, t, i, predicate_x, y) ==
  IF i > Len(t.kids) THEN st
  ELSE IF t.kids[i].label = "ADVP"
  THEN Bind(Invoke("process_modifier", <<st.ax, t.kids[i], predicate_x + st.w, y, y>>),
       LAMBDA r :
         IF r.err THEN Raise(r.ax)
         ELSE Bind(Ret(r.ax, st.w + r.w, 0),
                   LAMBDA s : s_advp_loop(s, t, i + 1, predicate_x, y)))
  ELSE s_advp_loop(st, t, i + 1, predicate_x, y)

\* process_s, lines 214-217: st = [ax, w, h, err], w is sbar_x
s_sbar_loop(st, sbar_nodes, i, predicate_x, predicate_width, y) ==
  IF i > Len(sbar_nodes) THEN st
  ELSE Bind(Invoke("process_sbar", <<st.ax, sbar_nodes[i], st.w, y + u(20)>>),
       LAMBDA r :
         IF r.err THEN Raise(r.ax)
         ELSE Bind(Ret(draw_line(r.ax, <<predicate_x + Half(predicate_width), y>>,
                                 <<st.w, y + u(20)>>, "dashed", 216, ""),
                       st.w + r.w + u(2), 0),
                   LAMBDA s : s_sbar_loop(s, sbar_nodes, i + 1, predicate_x,
                                          predicate_width, y)))

\* Lines 196-197 as they would be with a default in place of the [0] that
\* raises: a missing subject or predicate becomes an empty phrase.
s_lookup_default(t) ==
  LET nps == Children(t, {"NP"})
      vps == Children(t, {"VP"})
  IN [err |-> FALSE,
      np |-> IF nps = <<>> THEN N("NP", <<>>) ELSE nps[1],
      vp |-> IF vps = <<>> THEN N("VP", <<>>) ELSE vps[1]]

\* process_s, lines 196-197: the subject and the predicate of a sentence
\* that is not coordinated.  [child ...][0] raises IndexError on an empty
\* list, before anything is drawn.
s_lookup(t) ==
  LET nps == Children(t, {"NP"})
      vps == Children(t, {"VP"})
  IN IF nps = <<>> \/ vps = <<>>
     THEN [err |-> TRUE, np |-> N("NP", <<>>), vp |-> N("VP", <<>>)]
     ELSE [err |-> FALSE, np |-> nps[1], vp |-> vps[1]]

\* process_s, lines 199-201: the subject/predicate divider (200) and the
\* short stretch of baseline under it (201)
s_divider(ax, separator_x, y) ==
  LET a == draw_line(ax, <<separator_x, y + u(3)>>, <<separator_x, y - u(6)>>,
                     "solid", 200, "")
  IN draw_line(a, <<separator_x - u(2), y>>, <<separator_x + u(2), y>>,
               "solid", 201, "")

\* process_s, lines 198-218: subject np, predicate vp
s_plain(ax, t, np, vp, x, y) ==
  Bind(Invoke("process_np", <<ax, np, x, y>>),
  LAMBDA subj :
    IF subj.err THEN Raise(subj.ax)
    ELSE
    LET separator_x == x + subj.w + u(2)
        predicate_x == separator_x + u(5)
    IN Bind(Ret(s_divider(subj.ax, separator_x, y), u(5), 0),
       LAMBDA st0 :
         Bind(s_advp_loop(st0, t, 1, predicate_x, y),
         LAMBDA adv :
           IF adv.err THEN Raise(adv.ax)
           ELSE
           LET pred_mod_width == adv.w
           IN Bind(draw_line(adv.ax, <<separator_x, y>>,
                             <<predicate_x + pred_mod_width, y>>, "solid", 208, ""),
              LAMBDA a3 :
                Bind(Invoke("process_vp", <<a3, vp, predicate_x + pred_mod_width, y>>),
                LAMBDA pred :
                  IF pred.err THEN Raise(pred.ax)
                  ELSE
                  Bind(Ret(pred.ax, predicate_x + pred.w + u(2), 0),
                  LAMBDA sb0 :
                    Bind(s_sbar_loop(sb0, Children(t, {"SBAR"}), 1, predicate_x,
                                     pred.w, y),
                    LAMBDA sb :
                      IF sb.err THEN Raise(sb.ax)
                      ELSE Ret(sb.ax, subj.w + pred.w + u(4),
                               Max(subj.h, pred.h)))))))))

process_s(ax, t, x, y) ==
  IF HasCC(t)
  THEN LET s_nodes == Children(t, {"S"})
           cc == Children(t, {"CC"})[1]
       IN Bind(Ret(ax, 0, 0),
               LAMBDA s : s_coord_loop(s, s_nodes, join(leaves(cc)), 1, x, y))
  ELSE Bind(s_lookup(t),
       LAMBDA lk : IF lk.err THEN Raise(ax)
                   ELSE s_plain(ax, t, lk.np, lk.vp, x, y))

\* A call of one handler by another (the handlers call each other in a
\* cycle); a = <<ax, tree, x, y>>, and head_y last where the handler takes it.
Invoke(fn, a) ==
  CASE fn = "process_s" -> process_s(a[1], a[2], a[3], a[4])
    [] fn = "process_np" -> process_np(a[1], a[2], a[3], a[4])
    [] fn = "process_vp" -> process_vp(a[1], a[2], a[3], a[4])
    [] fn = "process_adjp" -> process_adjp(a[1], a[2], a[3], a[4])
    [] fn = "process_sbar" -> process_sbar(a[1], a[2], a[3], a[4])
    [] fn = "process_modifier" -> process_modifier(a[1], a[2], a[3], a[4], a[5])
    [] fn = "process_indirect_object" ->
         process_indirect_object(a[1], a[2], a[3], a[4], a[5])

-----------------------------------------------------------------------------
(* generate_diagram.  A sentence is its text together with the parse the   *)
(* external pipeline (spaCy + benepar, nlp_module.parse_sentence) returns  *)
(* for it.  figs is matplotlib's list of figures, graphs the number of     *)
(* Digraph objects built so far.                                           *)

parse_sentence(sentence) == sentence.parse

\* The chain of lines 14-34 as it would be if its last branch fell back to
\* the default value of the style parameter instead of raising.
style_branch_default(st) ==
  IF st = "reed-kellogg" THEN "reed-kellogg" ELSE "dependency"

\* lines 13, 20, 33: which branch a style value selects
style_branch(st) ==
  IF st = "dependency" THEN "dependency"
  ELSE IF st = "reed-kellogg" THEN "reed-kellogg"
  ELSE "unsupported"

\* Line 23 as it would be if it took the axes of the current figure
\* (plt.gca()) instead of making a new figure.
plt_gca(fs) == IF fs = <<>> THEN <<>> ELSE fs[Len(fs)].ax

\* plt.subplots(figsize=(12, 12)), line 23: a new figure with empty axes
plt_subplots(fs) == <<>>

\* The dependency branch, lines 14-19: one node per token; the edges come
\* from the external dependency parse and are not part of the layout.
dependency_svg(doc) ==
  [i \in 1..Len(leaves(doc)) |->
     [k |-> "node", site |-> 16, tag |-> "", x1 |-> i, y1 |-> 0, x2 |-> i,
      y2 |-> 0, style |-> "", text |-> leaves(doc)[i]]]

\* lines 21-32: the figure is created, laid out, saved and closed.  When
\* process_s raises, lines 28-31 are not reached and the figure stays open.
reed_kellogg(parse_tree, fs, gs) ==
  Bind(process_s(plt_subplots(fs), parse_tree, 0, u(10)),
  LAMBDA r :
    Bind(Append(fs, [tree |-> parse_tree, ax |-> r.ax, w |-> r.w, h |-> r.h,
                     err |-> r.err, open |-> r.err]),
    LAMBDA fs1 :
      IF r.err
      THEN [raised |-> TRUE, error |-> "list index out of range",
            doc |-> <<>>, figs |-> fs1, graphs |-> gs]
      ELSE [raised |-> FALSE, error |-> "", doc |-> r.ax,
            figs |-> fs1, graphs |-> gs]))

\* Returns [raised, error, doc, figs, graphs].
generate_diagram(sentence, st, fs, gs) ==
  IF style_branch(st) = "dependency"
  THEN [raised |-> FALSE, error |-> "",
        doc |-> dependency_svg(parse_sentence(sentence)),
        figs |-> fs, graphs |-> gs + 1]
  ELSE IF style_branch(st) = "reed-kellogg"
  THEN reed_kellogg(parse_sentence(sentence), fs, gs)
  ELSE [raised |-> TRUE,
        error |-> "Only 'dependency' and 'reed-kellogg' styles are currently supported.",
        doc |-> <<>>, figs |-> fs, graphs |-> gs]

-----------------------------------------------------------------------------
(* Parse trees the handlers are applied to. *)

tDT == T("DT", "the")
tJJ == T("JJ", "big")
tNN == T("NN", "cat")
tNNS == T("NNS", "dogs")
tPRP == T("PRP", "he")
tRB == T("RB", "very")
tVBD == T("VBD", "sat")
tMD == T("MD", "can")
tVB == T("VB", "run")
tIN == T("IN", "in")
tTO == T("TO", "to")
tCC == T("CC", "and")
tTHAT == T("IN", "that")

\* tDT/tJJ runs of length 0..MaxMods
ModSeqs == UNION {[1..n -> {tDT, tJJ}] : n \in 0..MaxMods}
\* head part of a flat noun phrase: noun, pronoun, none, coordinated nouns
Heads == {<<tNN>>, <<tPRP>>, <<>>, <<tNNS, tCC, tNNS>>}
FlatNPs == {N("NP", m \o h) : m \in ModSeqs, h \in Heads} \ {N("NP", <<>>)}

CoreNPs == {N("NP", <<tNN>>), N("NP", <<tDT, tNN>>)}
PPs == {N("PP", <<tIN, np>>) : np \in CoreNPs}
         \cup {N("PP", <<tIN>>), N("PP", <<tTO, N("NP", <<tNN>>)>>)}
ADJPs == {N("ADJP", <<tJJ>>), N("ADJP", <<tRB, tJJ>>), N("ADJP", <<tRB, tRB, tJJ>>),
          N("ADJP", <<tRB>>)}
ADVPs == {N("ADVP", <<tRB>>), N("ADVP", <<tRB, tRB>>), N("ADVP", <<tJJ>>)}

\* c1 ... c(n-1) tCC cn
Coordinated(lab, cs) ==
  N(lab, SubSeq(cs, 1, Len(cs) - 1) \o <<tCC>> \o <<cs[Len(cs)]>>)
ConjSeqs(S) == UNION {[1..n -> S] : n \in 2..MaxConj}

NestedNPs ==
  {N("NP", <<np, pp>>) : np \in CoreNPs, pp \in PPs}
    \cup {N("NP", <<adjp, tNN>>) : adjp \in ADJPs}
    \cup {N("NP", <<np, tCC>>) : np \in CoreNPs}
NPs == FlatNPs \cup NestedNPs
         \cup {Coordinated("NP", cs) : cs \in ConjSeqs(CoreNPs)}

VerbSeqs == {<<>>, <<tVBD>>, <<tMD, tVB>>}
VPMods ==
  {<<>>, <<tRB>>, <<N("PP", <<tIN, N("NP", <<tDT, tNN>>)>>)>>,
   <<N("ADVP", <<tRB, tRB>>)>>, <<N("PP", <<tTO, N("NP", <<tNN>>)>>)>>}
VPComps ==
  LET a == N("NP", <<tPRP>>)
      b == N("NP", <<tDT, tNN>>)
      c == N("NP", <<tNN>>)
      j == N("ADJP", <<tRB, tJJ>>)
  IN {<<>>, <<b>>, <<c>>, <<a, b>>, <<a, c>>, <<j>>, <<a, b, j>>, <<a, b, c>>,
      <<b, j>>, <<N("ADJP", <<tRB>>)>>, <<a, N("NP", <<tDT>>)>>}
VPs == {N("VP", v \o c \o m) : v \in VerbSeqs, c \in VPComps, m \in VPMods}
CoreVPs == {N("VP", <<tVBD>>), N("VP", <<tVBD, N("NP", <<tDT, tNN>>)>>),
            N("VP", <<tVBD, N("ADJP", <<tJJ>>)>>), N("VP", <<N("NP", <<tNN>>)>>)}

PlainSs ==
  {N("S", <<np, vp>>) : np \in NPs, vp \in CoreVPs}
    \cup {N("S", <<np, vp>>) : np \in CoreNPs, vp \in VPs}
CoreSs == {N("S", <<N("NP", <<tDT, tNN>>), N("VP", <<tVBD>>)>>),
           N("S", <<N("NP", <<tPRP>>), N("VP", <<tVBD, N("NP", <<tNN>>)>>)>>),
           N("S", <<N("VP", <<tVBD>>)>>)}
SBARs == {N("SBAR", <<tTHAT, s>>) : s \in CoreSs}
           \cup {N("SBAR", <<s>>) : s \in CoreSs} \cup {N("SBAR", <<tTHAT>>)}
OddSs ==
  {N("S", <<vp>>) : vp \in CoreVPs} \cup {N("S", <<np>>) : np \in CoreNPs}
    \cup {N("S", <<tCC, np, vp>>) : np \in CoreNPs, vp \in CoreVPs}
    \cup {N("S", <<s, tCC>>) : s \in CoreSs}
    \cup {N("S", <<np, adv, vp>>) : np \in CoreNPs, adv \in ADVPs, vp \in CoreVPs}
    \cup {N("S", <<np, vp, sb>>) : np \in CoreNPs, vp \in CoreVPs, sb \in SBARs}
    \cup {N("S", <<N("NP", <<tPRP>>), N("VP", <<tVBD>>), sb, sb>>) : sb \in SBARs}
Ss == PlainSs \cup OddSs \cup CoreSs
        \cup {Coordinated("S", cs) : cs \in ConjSeqs(CoreSs)}

Trees == Ss \cup NPs \cup VPs \cup ADJPs \cup SBARs

-----------------------------------------------------------------------------
(* SpecLayout: one function of diagrammer.py applied to one tree.          *)

\* origins (x, y) a handler is called at; generate_diagram uses (0, 10)
Origins == {<<0, u(10)>>, <<u(7) + 1, u(40)>>}
\* what is on the axes before the call
PriorAx == {<<>>, draw_line(<<>>, <<0, 0>>, <<u(1), u(1)>>, "solid", 0, "")}

NoCall == [fn |-> "", x |-> 0, y |-> 0]
NoTree == N("", <<>>)
Sentence(t) == [text |-> join(leaves(t)), parse |-> t]

InitLayout ==
  /\ pc = "ready" /\ call = NoCall /\ tree \in Trees /\ ax0 \in PriorAx
  /\ out = Ret(<<>>, 0, 0)
  /\ sentences = <<>> /\ style = "" /\ idx = 0 /\ results = <<>>
  /\ figs = <<>> /\ graphs = 0

Laid(fn, o, r) ==
  /\ call' = [fn |-> fn, x |-> o[1], y |-> o[2]]
  /\ out' = r
  /\ pc' = "laid"
  /\ UNCHANGED <<tree, ax0, sentences, style, idx, results, figs, graphs>>

call_process_s ==
  /\ pc = "ready" /\ tree.label = "S"
  /\ \E o \in Origins : Laid("process_s", o, process_s(ax0, tree, o[1], o[2]))

call_process_np ==
  /\ pc = "ready" /\ tree.label = "NP"
  /\ \E o \in Origins : Laid("process_np", o, process_np(ax0, tree, o[1], o[2]))

call_process_vp ==
  /\ pc = "ready" /\ tree.label = "VP"
  /\ \E o \in Origins : Laid("process_vp", o, process_vp(ax0, tree, o[1], o[2]))

call_process_adjp ==
  /\ pc = "ready" /\ tree.label = "ADJP"
  /\ \E o \in Origins : Laid("process_adjp", o, process_adjp(ax0, tree, o[1], o[2]))

call_process_sbar ==
  /\ pc = "ready" /\ tree.label = "SBAR"
  /\ \E o \in Origins : Laid("process_sbar", o, process_sbar(ax0, tree, o[1], o[2]))

\* generate_diagram(sentence, 'reed-kellogg') on a sentence whose parse is
\* `tree`; out is what became of its figure and whether the call raised.
call_generate_diagram ==
  /\ pc = "ready" /\ ax0 = <<>>
  /\ \E g \in {generate_diagram(Sentence(tree), "reed-kellogg", figs, graphs)} :
       /\ call' = [fn |-> "generate_diagram", x |-> 0, y |-> u(10)]
       /\ out' = [ax |-> g.figs[Len(g.figs)].ax, w |-> g.figs[Len(g.figs)].w,
                  h |-> g.figs[Len(g.figs)].h, err |-> g.raised]
       /\ figs' = g.figs
       /\ graphs' = g.graphs
  /\ pc' = "laid"
  /\ UNCHANGED <<tree, ax0, sentences, style, idx, results>>

NextLayout ==
  \/ call_process_s
  \/ call_process_np
  \/ call_process_vp
  \/ call_process_adjp
  \/ call_process_sbar
  \/ call_generate_diagram

SpecLayout == InitLayout /\ [][NextLayout]_vars

-----------------------------------------------------------------------------
(* Spec: one POST request through index() of app.py.                       *)

Styles == {"dependency", "reed-kellogg", "arc-diagram"}

Sentences ==
  {Sentence(t) : t \in
     {N("S", <<N("NP", <<tDT, tNN>>), N("VP", <<tVBD>>)>>),
      N("S", <<N("NP", <<tPRP>>), N("VP", <<tVBD, N("NP", <<tDT, tJJ, tNN>>)>>)>>),
      N("S", <<N("VP", <<tVBD>>)>>),
      N("NP", <<tDT, tNN>>),
      N("S", <<N("NP", <<tDT, tNN>>),
               N("VP", <<tVBD, N("PP", <<tTO, N("NP", <<tNN>>)>>)>>)>>)}}

\* error_handling.check_input: "" stands for None (no error)
check_input(input_text) ==
  IF input_text = "" THEN "Please enter a valid sentence." ELSE ""

\* the text a list of sentences was split from (nlp_module.split_sentences
\* returns the stripped, non-empty sentences of the input, in order)
InputText(ss) == join([i \in 1..Len(ss) |-> ss[i].text])

Init ==
  /\ pc = "idle" /\ call = NoCall /\ tree = NoTree /\ ax0 = <<>>
  /\ out = Ret(<<>>, 0, 0)
  /\ sentences = <<>> /\ style = "" /\ idx = 0 /\ results = <<>>
  /\ figs = <<>> /\ graphs = 0

\* app.py lines 14-22: the request arrives, is validated and split
index_post ==
  /\ pc = "idle"
  /\ \E n \in 0..MaxSentences : \E ss \in [1..n -> Sentences] : \E st \in Styles :
       /\ style' = st
       /\ IF check_input(InputText(ss)) # ""
          THEN /\ sentences' = <<>>
               /\ results' = <<[sentence |-> InputText(ss), kind |-> "error",
                                diagram |-> <<>>,
                                error |-> check_input(InputText(ss))]>>
               /\ pc' = "done"
          ELSE /\ sentences' = ss
               /\ results' = <<>>
               /\ pc' = "loop"
  /\ idx' = 0
  /\ UNCHANGED <<call, tree, ax0, out, figs, graphs>>

\* The loop body of lines 23-28 as it would be if the except clause only
\* passed: a sentence that fails leaves no entry.
index_iteration_pass(sentence, st, res, fs, gs) ==
  Bind(generate_diagram(sentence, st, fs, gs),
  LAMBDA g :
    [results |->
       IF g.raised
       THEN res
       ELSE Append(res, [sentence |-> sentence.text, kind |-> "diagram",
                         diagram |-> g.doc, error |-> ""]),
     figs |-> g.figs, graphs |-> g.graphs])

\* app.py lines 24-28: the body of the loop for one sentence
index_iteration(sentence, st, res, fs, gs) ==
  Bind(generate_diagram(sentence, st, fs, gs),
  LAMBDA g :
    [results |->
       IF g.raised
       THEN Append(res, [sentence |-> sentence.text, kind |-> "error",
                         diagram |-> <<>>, error |-> g.error])
       ELSE Append(res, [sentence |-> sentence.text, kind |-> "diagram",
                         diagram |-> g.doc, error |-> ""]),
     figs |-> g.figs, graphs |-> g.graphs])

index_step ==
  /\ pc = "loop" /\ idx < Len(sentences)
  /\ \E it \in {index_iteration(sentences[idx + 1], style, results, figs, graphs)} :
       /\ results' = it.results
       /\ figs' = it.figs
       /\ graphs' = it.graphs
  /\ idx' = idx + 1
  /\ UNCHANGED <<pc, call, tree, ax0, out, sentences, style>>

\* app.py line 29: the loop is over and the page is rendered
index_render ==
  /\ pc = "loop" /\ idx = Len(sentences)
  /\ pc' = "done"
  /\ UNCHANGED <<call, tree, ax0, out, sentences, style, idx, results, figs, graphs>>

Next == index_post \/ index_step \/ index_render

Spec == Init /\ [][Next]_vars

-----------------------------------------------------------------------------
(* Vocabulary of the properties *)

Min(a, b) == IF a <= b THEN a ELSE b
Handlers == {"process_s", "process_np", "process_vp", "process_adjp", "process_sbar"}

\* indices of the primitives the call added to the axes
New == (Len(ax0) + 1)..Len(out.ax)
\* the lines among them that were drawn at the given source lines
LinesAt(sites) == {i \in New : out.ax[i].k = "line" /\ out.ax[i].site \in sites}

\* the node has no noun-phrase child or no verb-phrase child
LacksRole(t) == Children(t, {"NP"}) = <<>> \/ Children(t, {"VP"}) = <<>>

\* A tree of the expected shape: every phrase has the head its handler
\* looks for, and a conjunction joins at least two phrases of the node's
\* own category.
RECURSIVE WellFormed(_)
WellFormed(t) ==
  IF t.kids = <<>> THEN t.word # ""
  ELSE /\ \A i \in 1..Len(t.kids) : WellFormed(t.kids[i])
       /\ HasCC(t) => /\ t.label \in {"S", "NP"}
                      /\ Len(Children(t, {t.label})) >= 2
       /\ (t.label = "S" /\ ~HasCC(t)) => ~LacksRole(t)
       /\ (t.label = "NP" /\ ~HasCC(t)) =>
            Children(t, NounTags \cup {"PRP", "NP"}) # <<>>
       /\ t.label = "VP" => Children(t, VerbTags \cup {"MD"}) # <<>>
       /\ t.label = "PP" => Children(t, {"IN"}) # <<>> /\ Children(t, {"NP"}) # <<>>
       /\ t.label = "ADJP" => Children(t, {"JJ"}) # <<>>
       /\ t.label = "ADVP" => Children(t, {"RB"}) # <<>>
       /\ t.label = "SBAR" => Children(t, {"S"}) # <<>>

\* sign of the slope of a line in canvas coordinates (0: horizontal or vertical)
SlopeSign(p) ==
  LET d == (p.y2 - p.y1) * (p.x2 - p.x1)
  IN IF d > 0 THEN 1 ELSE IF d < 0 THEN -1 ELSE 0
Shape(p) == <<p.x2 - p.x1, p.y2 - p.y1>>

\* The call laid out one clause or one verb phrase, so every divider it drew
\* belongs to the baseline y it was called with.
OnOneBaseline ==
  /\ pc = "laid"
  /\ \/ call.fn = "process_vp"
     \/ /\ call.fn \in {"process_s", "generate_diagram"}
        /\ ~HasCC(tree) /\ Children(tree, {"SBAR"}) = <<>>

\* The subject/predicate divider (200) of the clause: one solid vertical
\* segment with an endpoint on each side of the baseline.
SubjPredDivider ==
  (OnOneBaseline /\ call.fn # "process_vp") =>
    /\ ~out.err => Cardinality(LinesAt({200})) = 1
    /\ \A i \in LinesAt({200}) :
         /\ out.ax[i].style = "solid"
         /\ out.ax[i].x1 = out.ax[i].x2
         /\ Min(out.ax[i].y1, out.ax[i].y2) < call.y
         /\ call.y < Max(out.ax[i].y1, out.ax[i].y2)

\* the verb/object dividers: the tick before the direct object of two NP
\* complements (305) and the separator before an NP complement (317)
ObjectDividers == LinesAt({305}) \cup {i \in LinesAt({317}) : out.ax[i].tag = "NP"}
\* the separators drawn before an ADJP complement (317)
ComplementLines == {i \in LinesAt({317}) : out.ax[i].tag = "ADJP"}

-----------------------------------------------------------------------------
(* C1: every handler returns a width > 0 for a well-formed subtree (which  *)
(* has at least one leaf), a bare head noun included.                      *)
C1_WidthPositive ==
  (pc = "laid" /\ call.fn \in Handlers /\ WellFormed(tree) /\ ~out.err)
    => out.w > 0

-----------------------------------------------------------------------------
(* C2 as stated: the subject/predicate divider of a clause is one solid    *)
(* vertical segment with an endpoint on each side of the baseline, and no  *)
(* verb/object divider has a point above the baseline (y < baseline y).    *)
C2_DividerNeverAbove ==
  /\ SubjPredDivider
  /\ OnOneBaseline =>
       \A i \in ObjectDividers : out.ax[i].y1 >= call.y /\ out.ax[i].y2 >= call.y

(* C2 as amended: the subject/predicate divider is as stated; every        *)
(* verb/object divider touches the baseline and has no point below it      *)
(* (no y larger than the baseline y): it stands on the baseline.           *)
C2_DividerNeverBelow ==
  /\ SubjPredDivider
  /\ OnOneBaseline =>
       \A i \in ObjectDividers :
         /\ out.ax[i].y1 <= call.y /\ out.ax[i].y2 <= call.y
         /\ Max(out.ax[i].y1, out.ax[i].y2) = call.y

C2_Witness ==
  /\ OnOneBaseline /\ call.fn = "process_s" /\ ~out.err
  /\ LinesAt({200}) # {}
  /\ \E i \in LinesAt({317}) : out.ax[i].tag = "NP"

-----------------------------------------------------------------------------
(* C3: the line attaching an ADJP complement and the diagonal of a         *)
(* modifier have slopes of opposite sign, and the complement line never    *)
(* has the geometry of a verb/object divider.                              *)
C3_OppositeSlopes ==
  pc = "laid" =>
    /\ \A i \in ComplementLines : \A j \in LinesAt({89}) :
         SlopeSign(out.ax[i]) * SlopeSign(out.ax[j]) < 0
    /\ \A i \in ComplementLines : \A j \in ObjectDividers :
         Shape(out.ax[i]) # Shape(out.ax[j])

-----------------------------------------------------------------------------
(* C4: process_vp raises on a verb phrase with no VB* or MD child.         *)
C4_MissingVerbRaises ==
  (pc = "laid" /\ call.fn = "process_vp"
     /\ Children(tree, VerbTags \cup {"MD"}) = <<>>)
    => out.err

-----------------------------------------------------------------------------
(* C5: with a style other than 'dependency' and 'reed-kellogg' every call  *)
(* of generate_diagram fails with the unsupported-style error, no figure   *)
(* and no graph is created and nothing is drawn.                           *)
C5_UnsupportedStyle ==
  (pc \in {"loop", "done"} /\ sentences # <<>>
     /\ style \notin {"dependency", "reed-kellogg"})
    => /\ figs = <<>> /\ graphs = 0
       /\ Len(results) = idx
       /\ \A i \in 1..Len(results) :
            /\ results[i].kind = "error"
            /\ results[i].diagram = <<>>
            /\ results[i].error
                 = "Only 'dependency' and 'reed-kellogg' styles are currently supported."

C5_Witness ==
  pc = "done" /\ style = "arc-diagram" /\ idx >= 2 /\ Len(results) = idx

-----------------------------------------------------------------------------
\* the entry of the result list that one call of generate_diagram, on its
\* own, gives for a sentence
EntryFor(sentence, st) ==
  Bind(generate_diagram(sentence, st, <<>>, 0),
  LAMBDA g : [sentence |-> sentence.text,
              kind |-> IF g.raised THEN "error" ELSE "diagram",
              diagram |-> g.doc, error |-> g.error])

(* C6: the loop of index() yields one entry per sentence, in order; entry  *)
(* i is what generate_diagram alone makes of sentence i (a diagram, or the *)
(* error it raised), whatever happened to the other sentences.             *)
C6_OneEntryPerSentence ==
  (pc \in {"loop", "done"} /\ sentences # <<>>)
    => /\ Len(results) = idx /\ idx <= Len(sentences)
       /\ pc = "done" => idx = Len(sentences)
       /\ \A i \in 1..Len(results) : results[i] = EntryFor(sentences[i], style)

C6_Witness ==
  /\ pc = "done" /\ Len(results) >= 3
  /\ results[1].kind = "diagram" /\ results[2].kind = "error"
  /\ results[3].kind = "diagram"

-----------------------------------------------------------------------------
-----------------------------------------------------------------------------
(* C8: a sentence node without conjunction that lacks its NP or its VP     *)
(* makes process_s raise before it draws anything, and the exception       *)
(* leaves generate_diagram; so does it from a clause inside an SBAR.       *)
C8_MissingRoleRaises ==
  pc = "laid" =>
    /\ (call.fn = "process_s" /\ ~HasCC(tree) /\ LacksRole(tree))
         => out.err /\ out.ax = ax0
    /\ (call.fn = "generate_diagram" /\ ~HasCC(tree) /\ LacksRole(tree))
         => out.err /\ out.ax = <<>>
    /\ (call.fn = "process_sbar" /\ Children(tree, {"S"}) # <<>>)
         => LET s == Children(tree, {"S"})[1]
            IN (~HasCC(s) /\ LacksRole(s))
                 => /\ out.err
                    /\ \A i \in New : out.ax[i].site \in {103, 104}
    /\ (call.fn \in {"process_s", "generate_diagram"} /\ ~HasCC(tree))
         => \A k \in 1..Len(tree.kids) :
              (/\ tree.kids[k].label = "SBAR"
               /\ Children(tree.kids[k], {"S"}) # <<>>
               /\ ~HasCC(Children(tree.kids[k], {"S"})[1])
               /\ LacksRole(Children(tree.kids[k], {"S"})[1]))
                => out.err

C8_Witness ==
  /\ pc = "laid" /\ call.fn = "generate_diagram"
  /\ tree.label = "S" /\ ~HasCC(tree) /\ LacksRole(tree)
  /\ Children(tree, {"VP"}) # <<>>
  /\ out.err /\ out.ax = <<>>

-----------------------------------------------------------------------------
(* C9: the width process_np returns is at least the length of the baseline *)
(* it draws from x, so the subject/predicate divider and the predicate of  *)
(* process_s do not lie inside the subject's baseline.                     *)
C9_WidthCoversBaseline ==
  (pc = "laid" /\ ~out.err /\ ~HasCC(tree)) =>
    \A b \in LinesAt({270}) :
      (out.ax[b].x1 = call.x /\ out.ax[b].y1 = call.y) =>
        /\ call.fn = "process_np" => out.w >= out.ax[b].x2 - out.ax[b].x1
        /\ (call.fn = "process_s" /\ Children(tree, {"SBAR"}) = <<>>) =>
             /\ \A d \in LinesAt({200}) : out.ax[d].x1 >= out.ax[b].x2
             /\ \A v \in LinesAt({327}) : out.ax[v].x1 >= out.ax[b].x2

-----------------------------------------------------------------------------
(* C10: a node with a CC child but fewer than 2 children of its own        *)
(* category is laid out by the ordinary rule (an NP draws its baseline, an *)
(* S looks for subject and predicate), not as an empty layout of width 0.  *)
C10_CoordinationNeedsTwo ==
  (pc = "laid" /\ HasCC(tree)) =>
    /\ (call.fn = "process_np" /\ Len(Children(tree, {"NP"})) < 2)
         => /\ ~(out.w = 0 /\ out.ax = ax0)
            /\ out.err \/ LinesAt({270}) # {}
    /\ (call.fn = "process_s" /\ Len(Children(tree, {"S"})) < 2)
         => /\ ~(~out.err /\ out.w = 0 /\ out.ax = ax0)
            /\ out.err \/ LinesAt({200}) # {}

-----------------------------------------------------------------------------
(* C11: after any sequence of reed-kellogg calls of generate_diagram, each *)
(* of which returned a document or raised during layout, no figure that a  *)
(* completed call created is still open.                                   *)
C11_FiguresClosed ==
  \A i \in 1..Len(figs) : ~figs[i].open

=============================================================================
